---- MODULE Spec2Model ----
\* Verification model of zipe's module-dependency-graph builder (parse) and of
\* the composite-component (SFC) compile cache (compilers.ts).
EXTENDS Integers, Sequences, FiniteSets, TLC

VARIABLES
    files,       \* the project on disk, as seen through resolver and fileCache
    calls,       \* every invocation of parse(): its position and its item
    depCache,    \* dependenciesCache: module.path -> item (id of the creating call)
    vueCache,    \* compilers.ts vueCache: path -> entry object id (0 = absent)
    heap,        \* CacheEntry objects, by id
    disk,        \* current source of each composite file
    reqs         \* invocations of parseSFC / compileSFC*

vars == <<files, calls, depCache, vueCache, heap, disk, reqs>>
graphVars == <<files, calls, depCache>>
sfcVars == <<vueCache, heap, disk, reqs>>

----------------------------------------------------------------------------
\* Bounds

\* parse() invocations per run (caps the unbounded recursion on import cycles)
MaxCalls == 6

\* style sections of a composite file
MaxStyles == 2

\* edits of a composite file's style sections per run
MaxEdits == 1

\* compile requests per run
MaxReqs == 3

----------------------------------------------------------------------------
\* The project: files, their resolver info and their imports

Files == {"main", "a", "b", "c"}
Entry == "main"

\* Composite files handed to compilers.ts
SfcPaths == {"App.vue"}

\* JS null (item.code before any transform) and the empty string
Null == "null"
Empty == ""

\* What the resolver and the content source answer for one file:
\* ext = posix.extname(module.path).slice(1), module = info.module (external),
\* resolves = resolver.info succeeds, exists = fileCache.get succeeds.
FileTypes ==
    { [ext |-> "vue", module |-> FALSE, resolves |-> TRUE,  exists |-> TRUE],
      [ext |-> "ts",  module |-> FALSE, resolves |-> TRUE,  exists |-> TRUE],
      [ext |-> "txt", module |-> FALSE, resolves |-> TRUE,  exists |-> TRUE],
      [ext |-> "js",  module |-> TRUE,  resolves |-> TRUE,  exists |-> TRUE],
      [ext |-> "vue", module |-> FALSE, resolves |-> TRUE,  exists |-> FALSE],
      [ext |-> "txt", module |-> FALSE, resolves |-> TRUE,  exists |-> FALSE],
      [ext |-> "ts",  module |-> FALSE, resolves |-> FALSE, exists |-> FALSE],
      [ext |-> "constructor", module |-> FALSE, resolves |-> TRUE, exists |-> TRUE],
      [ext |-> "valueOf", module |-> FALSE, resolves |-> TRUE, exists |-> TRUE] }

NoImports == [f \in Files |-> <<>>]

\* Import statements of each file's source, in declaration order.
ImportShapes ==
    { NoImports,
      [NoImports EXCEPT !["main"] = <<"a">>],
      [NoImports EXCEPT !["main"] = <<"a">>, !["a"] = <<"c">>],
      [NoImports EXCEPT !["main"] = <<"a", "b">>],
      [NoImports EXCEPT !["main"] = <<"a", "b">>, !["a"] = <<"c">>, !["b"] = <<"c">>],
      [NoImports EXCEPT !["main"] = <<"a", "b">>, !["a"] = <<"b">>, !["b"] = <<"c">>],
      [NoImports EXCEPT !["main"] = <<"main">>],
      [NoImports EXCEPT !["main"] = <<"a">>, !["a"] = <<"main">>] }

\* JS undefined (the code property of a value that has none)
Undefined == "undefined"

\* scriptTransforms: the extensions with a registered transform (the own
\* keys of the object literal)
Registered == {"ts", "js", "jsx", "tsx", "json"}

\* scriptTransforms is a plain object, so transformers[extension] also finds
\* the members it inherits from Object.prototype. Called as a plain function
\* with (rawContent, filePath, {}), these return a value without a code
\* property ...
InheritedReturning == {"constructor", "toString", "isPrototypeOf"}

\* ... and these throw a TypeError (they convert an undefined receiver to an
\* object); __proto__ is an object, not a function, and calling it throws too
InheritedThrowing ==
    {"valueOf", "hasOwnProperty", "propertyIsEnumerable", "toLocaleString",
     "__defineGetter__", "__defineSetter__", "__lookupGetter__",
     "__lookupSetter__", "__proto__"}

InheritedNotCallable == {"__proto__"}

\* const transformer = transformers[extension]; if (transformer)
HasTransformer(ext) ==
    ext \in Registered \cup InheritedReturning \cup InheritedThrowing

\* transformer(rawContent, filePath, {}) throws before anything is awaited
TransformerThrows(ext) == ext \in InheritedThrowing

\* The text a transform (or the SFC script compile) produces for file f is
\* named by f; Empty is the empty text. An inherited member's result has no
\* code.
CompiledCode(f) == IF files[f].ext \in InheritedReturning THEN Undefined ELSE f
RawContent(f) == f

\* ModuleInformation of a resolved file
Info(f) == [path |-> f, name |-> f, module |-> files[f].module]

\* One ZipeDependency for an import of file f
Dependency(f) == [module |-> f, info |-> Info(f)]

\* parseImportsExports(code, ...)[0]: the imports found in a compiled text,
\* in order; the empty text has none.
ParseImports(code) ==
    IF code \in {Empty, Null, Undefined} THEN <<>>
    ELSE [i \in 1..Len(files[code].imports) |-> Dependency(files[code].imports[i])]

----------------------------------------------------------------------------
\* parse(): one record per invocation; the item it allocates lives in the
\* same record (each invocation allocates exactly one item).
\*   pc: "resolve" (awaiting resolver.info), "read" (fileCache.get), "sfc"
\*       (sfcParser), "transform" (transformer), "join" (Promise.all),
\*       "returned", "failed"
\*   styles: item.extra.styles; sfcScriptCode: item.sfc.script.code
\*   history only: warnings (console.warn calls), compiled (sfcParser or the
\*   transformer was invoked), folded (the parent's .then callback ran),
\*   settledLen (length of fullDependencies when the call settled)

NewCall(f, importer, parent) ==
    [ file |-> f, importer |-> importer, parent |-> parent,
      pc |-> "resolve", err |-> "none",
      hasItem |-> FALSE,
      rawContent |-> Empty, code |-> Null, sfcScriptCode |-> Empty,
      dependencies |-> <<>>, fullDependencies |-> <<>>, styles |-> <<>>,
      dependenciesPromise |-> Null,
      warnings |-> 0, compiled |-> FALSE, folded |-> FALSE,
      settledLen |-> 0 ]

Ids == 1..Len(calls)
Children(cs, p) == {c \in 1..Len(cs) : cs[c].parent = p}
Settled(c) == calls[c].pc \in {"returned", "failed"}

\* line 178: item.dependencies.filter((x) => !x.info.module)
FilterAllDeps(deps) == deps
ToRecurse(deps) == SelectSeq(deps, LAMBDA d : ~d.info.module)

\* lines 176-195: seed fullDependencies, start one parse per filtered
\* dependency, then await Promise.all
FanOut(cs, p, deps) ==
    LET targets == ToRecurse(deps)
        kids == [i \in 1..Len(targets) |->
                    NewCall(targets[i].info.path, cs[p].file, p)]
    IN [cs EXCEPT ![p].dependencies = @ \o deps,
                  ![p].fullDependencies = @ \o deps,
                  ![p].pc = "join"] \o kids

\* line 129: dependenciesCache.set(module.path, item)
CacheSetSkipped(dc, path, c) == dc
CacheSet(dc, path, c) == [dc EXCEPT ![path] = c]

\* lines 86-132: resolver.info answered; allocate the item, register it in
\* the cache, start the content read
ResolveOk(c) ==
    /\ calls[c].pc = "resolve"
    /\ files[calls[c].file].resolves
    /\ calls' = [calls EXCEPT ![c].pc = "read", ![c].hasItem = TRUE]
    /\ depCache' = CacheSet(depCache, calls[c].file, c)
    /\ UNCHANGED <<files, sfcVars>>

\* line 86: resolver.info rejects
ResolveFail(c) ==
    /\ calls[c].pc = "resolve"
    /\ ~files[calls[c].file].resolves
    /\ calls' = [calls EXCEPT ![c].pc = "failed", ![c].err = "ResolutionError"]
    /\ UNCHANGED <<files, depCache, sfcVars>>

\* lines 132-134: fileCache.get rejects; nothing catches it
ReadFailAbsorbed(cs, c) ==
    [cs EXCEPT ![c].pc = "join"]
ReadFailOutcome(cs, c) ==
    [cs EXCEPT ![c].pc = "failed", ![c].err = "NotFound"]
ReadFail(c) ==
    /\ calls[c].pc = "read"
    /\ ~files[calls[c].file].exists
    /\ calls' = ReadFailOutcome(calls, c)
    /\ UNCHANGED <<files, depCache, sfcVars>>

\* lines 151-173, no transformer: warn, then lines 176-195 with no dependencies
NoTransformer(cs, c) ==
    FanOut([cs EXCEPT ![c].warnings = @ + 1], c, <<>>)

\* lines 132-156: content read; dispatch on the extension. A transformer
\* that throws when called rejects parse in the same turn.
ReadOk(c) ==
    LET f == calls[c].file
        cs == [calls EXCEPT ![c].rawContent = RawContent(f)]
    IN /\ calls[c].pc = "read"
       /\ files[f].exists
       /\ calls' =
            IF files[f].ext = "vue"
            THEN [cs EXCEPT ![c].pc = "sfc", ![c].compiled = TRUE]
            ELSE IF HasTransformer(files[f].ext)
            THEN IF TransformerThrows(files[f].ext)
                 THEN [cs EXCEPT ![c].pc = "failed", ![c].err = "TypeError",
                          ![c].compiled = files[f].ext \notin InheritedNotCallable]
                 ELSE [cs EXCEPT ![c].pc = "transform", ![c].compiled = TRUE]
            ELSE NoTransformer(cs, c)
       /\ UNCHANGED <<files, depCache, sfcVars>>

\* lines 138-139: the parser's extra becomes item.sfc; nothing of it is
\* pushed into item.extra.styles
OwnStylesPushed(f) == <<f>>
OwnStyles(f) == <<>>

\* lines 138-150 and 176-195: sfcParser answered; imports are read from the
\* compiled script
SfcDone(c) ==
    LET f == calls[c].file
        cs == [calls EXCEPT ![c].sfcScriptCode = CompiledCode(f),
                            ![c].styles = @ \o OwnStyles(f)]
        imports == ParseImports(cs[c].sfcScriptCode)
    IN /\ calls[c].pc = "sfc"
       /\ Len(calls) + Len(ToRecurse(imports)) <= MaxCalls
       /\ calls' = FanOut(cs, c, imports)
       /\ UNCHANGED <<files, depCache, sfcVars>>

\* lines 156-170 and 176-195: transformer answered; imports are read from
\* item.sfc.script.code (line 162), not from item.code
TransformDone(c) ==
    LET f == calls[c].file
        cs == [calls EXCEPT ![c].code = CompiledCode(f)]
        imports == ParseImports(cs[c].sfcScriptCode)
    IN /\ calls[c].pc = "transform"
       /\ Len(calls) + Len(ToRecurse(imports)) <= MaxCalls
       /\ calls' = FanOut(cs, c, imports)
       /\ UNCHANGED <<files, depCache, sfcVars>>

\* lines 188-191: the .then callback of a child that returned folds the
\* child's lists into the parent's item, whatever the parent's state
Then(c) ==
    LET p == calls[c].parent
    IN /\ calls[c].pc = "returned"
       /\ ~calls[c].folded
       /\ p # 0
       /\ calls' = [calls EXCEPT
              ![c].folded = TRUE,
              ![p].styles = @ \o calls[c].styles,
              ![p].fullDependencies = @ \o calls[c].fullDependencies]
       /\ UNCHANGED <<files, depCache, sfcVars>>

\* line 195: Promise.all fulfils once every .then promise has fulfilled
AllSettled(cs, p) ==
    \A k \in Children(cs, p) :
        \/ cs[k].pc = "returned" /\ cs[k].folded
        \/ cs[k].pc = "failed"
AllFulfilled(cs, p) ==
    \A k \in Children(cs, p) : cs[k].pc = "returned" /\ cs[k].folded

\* lines 195-197: return item
Join(p) ==
    /\ calls[p].pc = "join"
    /\ AllFulfilled(calls, p)
    /\ calls' = [calls EXCEPT ![p].pc = "returned",
                              ![p].settledLen = Len(calls[p].fullDependencies)]
    /\ UNCHANGED <<files, depCache, sfcVars>>

\* line 195: Promise.all rejects as soon as one child's promise rejects
JoinFail(p) ==
    /\ calls[p].pc = "join"
    /\ \E k \in Children(calls, p) :
          /\ calls[k].pc = "failed"
          /\ calls' = [calls EXCEPT ![p].pc = "failed", ![p].err = calls[k].err,
                         ![p].settledLen = Len(calls[p].fullDependencies)]
    /\ UNCHANGED <<files, depCache, sfcVars>>

----------------------------------------------------------------------------

IdleSFC ==
    /\ vueCache = [p \in SfcPaths |-> 0]
    /\ heap = <<>>
    /\ disk = [p \in SfcPaths |-> <<>>]
    /\ reqs = <<>>

Init ==
    /\ \E types \in [Files -> FileTypes], shape \in ImportShapes :
          files = [f \in Files |->
                     [ext |-> types[f].ext, module |-> types[f].module,
                      resolves |-> types[f].resolves, exists |-> types[f].exists,
                      imports |-> IF types[f].ext \in Registered \cup {"vue"}
                                  THEN shape[f] ELSE <<>>]]
    /\ calls = <<NewCall(Entry, Empty, 0)>>
    /\ depCache = [f \in Files |-> 0]
    /\ IdleSFC

Next ==
    \E c \in Ids :
        \/ ResolveOk(c)
        \/ ResolveFail(c)
        \/ ReadOk(c)
        \/ ReadFail(c)
        \/ SfcDone(c)
        \/ TransformDone(c)
        \/ Then(c)
        \/ Join(c)
        \/ JoinFail(c)

Spec == Init /\ [][Next]_vars

----------------------------------------------------------------------------
\* compilers.ts: the composite-file (SFC) compile steps and vueCache.
\* An optional value is a sequence: <<>> is undefined, <<v>> is v.

StyleBlocks ==
    [content : 1..(MaxEdits + 1), scoped : BOOLEAN, module : {"absent", "true", "theme"}]

RECURSIVE SeqsUpTo(_, _)
SeqsUpTo(S, n) ==
    IF n = 0 THEN {<<>>}
    ELSE LET shorter == SeqsUpTo(S, n - 1)
         IN shorter \cup {Append(q, x) : q \in {t \in shorter : Len(t) = n - 1}, x \in S}

\* A composite file's text, by its sections: script is "none" (no script
\* section), "js" or "ts" (its lang); template says a template section exists.
Sources ==
    [script : {"none", "js", "ts"}, template : BOOLEAN,
     styles : SeqsUpTo(StyleBlocks, MaxStyles)]

\* lines 63-66: resolveCompiler(root).parse(content): the descriptor names
\* the sections of the text
ParseText(content) ==
    [script |-> content.script, template |-> content.template,
     styles |-> content.styles]

\* descriptor.styles[i], i counted from 0
StyleAt(d, i) == d.styles[i + 1]

PublicPath(p) == "/" \o p
HashSum(publicPath) == "hash(" \o publicPath \o ")"
IndexText == <<"0", "1", "2", "3">>
IndexStr(i) == IndexText[i + 1]
HmrClientId == "/vite/hmr"

Stmt(kind, arg, index) == [kind |-> kind, arg |-> arg, index |-> index]

\* line 122
StyleRequest(publicPath, i) == publicPath \o "?type=style&index=" \o IndexStr(i)

\* line 130: typeof s.module === "string" ? s.module : "$style"
ModuleNameDefault(s) == "$style"
ModuleName(s) == IF s.module = "true" THEN "$style" ELSE s.module

\* lines 121-137: the statements emitted for style sections i.. of the
\* descriptor; hasCSSModules says __cssModules was already created
RECURSIVE StyleWiring(_, _, _, _)
StyleWiring(d, publicPath, i, hasCSSModules) ==
    IF i >= Len(d.styles) THEN <<>>
    ELSE LET s == StyleAt(d, i)
             isModule == s.module # "absent"
             create == IF isModule /\ ~hasCSSModules
                       THEN <<Stmt("const __cssModules = __script.__cssModules = {}", "", -1)>>
                       ELSE <<>>
             assign == IF isModule
                       THEN <<Stmt("import __style", StyleRequest(publicPath, i) \o "&module", i),
                              Stmt("__cssModules[] = __style", ModuleName(s), i)>>
                       ELSE <<>>
             update == <<Stmt("updateStyle", StyleRequest(publicPath, i), i)>>
         IN create \o assign \o update
               \o StyleWiring(d, publicPath, i + 1, hasCSSModules \/ isModule)

\* lines 104-155: the synthetic module compileSFCMain builds
MainCode(d, filePath, publicPath) ==
    LET id == HashSum(publicPath)
        script == IF d.script # "none"
                  THEN <<Stmt("const __script = <script>", d.script, -1)>>
                  ELSE <<Stmt("const __script = {}", "", -1)>>
        hasScoped == \E i \in 1..Len(d.styles) : d.styles[i].scoped
        scope == IF hasScoped
                 THEN <<Stmt("__script.__scopeId", "data-v-" \o id, -1)>>
                 ELSE <<>>
        template == IF d.template
                    THEN <<Stmt("import { render as __render }", publicPath \o "?type=template", -1),
                           Stmt("__script.render = __render", "", -1)>>
                    ELSE <<>>
        map == IF d.script # "none"
               THEN <<Stmt("sourceMappingURL", d.script, -1)>>
               ELSE <<>>
    IN script
         \o <<Stmt("import { updateStyle }", HmrClientId, -1)>>
         \o StyleWiring(d, publicPath, 0, FALSE)
         \o scope \o template
         \o <<Stmt("__script.__hmrId", publicPath, -1),
              Stmt("__script.__file", filePath, -1),
              Stmt("export default __script", "", -1)>>
         \o map

\* lines 177-190, 212: compileTemplate's code for the template section; the
\* scope id is passed when the caller says the file is scoped
TemplateCode(d, publicPath, scoped) ==
    <<Stmt("export function render", IF scoped THEN "data-v-" \o HashSum(publicPath) ELSE "", -1)>>

\* lines 239-253: compileStyleAsync's result for one style section
StyleResult(s, publicPath) ==
    [source |-> s.content, id |-> "data-v-" \o HashSum(publicPath),
     scoped |-> s.scoped, modules |-> s.module # "absent"]

\* { styles: [] }
NewEntry ==
    [descriptor |-> <<>>, script |-> <<>>, template |-> <<>>,
     styles |-> [i \in 0..(MaxStyles - 1) |-> <<>>]]

\* JS truthiness of an optional string: defined and not ""
TruthyText(o) == o # <<>> /\ o[1] # <<>>

\* lines 44-45: cached && cached.descriptor
CachedDescriptor(h, id) ==
    IF id # 0 /\ h[id].descriptor # <<>> THEN h[id].descriptor ELSE <<>>

\* lines 99-100: cached && cached.script
CachedScript(h, id) ==
    IF id # 0 /\ TruthyText(h[id].script) THEN h[id].script ELSE <<>>

\* lines 170-171: cached && cached.template
CachedTemplate(h, id) ==
    IF id # 0 /\ TruthyText(h[id].template) THEN h[id].template ELSE <<>>

\* lines 228-229: cached && cached.styles && cached.styles[index]
CachedStyleNever(h, id, index) == <<>>
CachedStyle(h, id, index) ==
    IF id # 0 /\ index \in DOMAIN h[id].styles THEN h[id].styles[index] ELSE <<>>

WithDescriptor(e, v) == [e EXCEPT !.descriptor = <<v>>]
WithScript(e, v) == [e EXCEPT !.script = <<v>>]
WithTemplate(e, v) == [e EXCEPT !.template = <<v>>]
WithStyle(e, i, v) == [e EXCEPT !.styles[i] = <<v>>]

\* cached = cached || { styles: [] }; cached.<field> = v;
\* vueCache.set(path, cached): the entry is the object read at the start of
\* the call, or a new one when none was there. (The LRU bound of 65535
\* entries, line 36, is never reached with the paths modelled.)
StoredHeap(h, id, e) == IF id = 0 THEN Append(h, e) ELSE [h EXCEPT ![id] = e]
StoredCache(vc, h, p, id) == [vc EXCEPT ![p] = IF id = 0 THEN Len(h) + 1 ELSE id]
EntryOf(h, id) == IF id = 0 THEN NewEntry ELSE h[id]

\* The sub-field stored in the path's current entry, read as the entry holds
\* it (history of a request: what was cached when it started)
StoredField(p, fn, index) ==
    IF vueCache[p] = 0 THEN <<>>
    ELSE LET e == heap[vueCache[p]]
         IN CASE fn = "parseSFC" -> e.descriptor
              [] fn = "compileSFCMain" -> e.script
              [] fn = "compileSFCTemplate" -> e.template
              [] OTHER -> e.styles[index]

\* The style section a style request is about, as the file holds it now
\* (history of a request; <<>> for the other requests or a missing section)
OnDisk(p, fn, index) ==
    IF fn = "compileSFCStyle" /\ disk[p] # <<>> /\ index < Len(disk[p][1].styles)
    THEN <<StyleAt(disk[p][1], index)>>
    ELSE <<>>

NewReq(fn, p, index, arg) ==
    [ fn |-> fn, path |-> p, index |-> index, arg |-> arg,
      cached |-> vueCache[p], block |-> OnDisk(p, fn, index),
      seen |-> StoredField(p, fn, index),
      pc |-> "start", result |-> <<>>, invoked |-> 0, blockDone |-> <<>> ]

ReqIds == 1..Len(reqs)

\* Descriptors a caller can hold: those parseSFC has returned for the path
Returned(p) ==
    {reqs[r].result[1] : r \in {q \in ReqIds :
        reqs[q].fn = "parseSFC" /\ reqs[q].path = p /\ reqs[q].pc = "done"
        /\ reqs[q].result # <<>>}}

\* return: the call's locals (descriptor argument, cached) are gone
Finish(rq, result, invoked) ==
    [rq EXCEPT !.pc = "done", !.result = result, !.invoked = @ + invoked,
               !.blockDone = OnDisk(rq.path, rq.fn, rq.index),
               !.arg = <<>>, !.cached = 0]

\* parseSFC(root, filename, content), lines 44-91 when no await is needed:
\* cache hit, or content given by the caller
ParseSFC(p, given) ==
    LET rq == NewReq("parseSFC", p, -1, <<>>)
        hit == CachedDescriptor(heap, rq.cached)
        d == ParseText(disk[p][1])
    IN /\ Len(reqs) < MaxReqs
       /\ given => disk[p] # <<>>
       /\ IF hit # <<>>
          THEN /\ reqs' = Append(reqs, Finish(rq, hit, 0))
               /\ UNCHANGED <<vueCache, heap>>
          ELSE IF given
          THEN /\ reqs' = Append(reqs, Finish(rq, <<d>>, 1))
               /\ heap' = StoredHeap(heap, rq.cached, WithDescriptor(EntryOf(heap, rq.cached), d))
               /\ vueCache' = StoredCache(vueCache, heap, p, rq.cached)
          ELSE /\ reqs' = Append(reqs, [rq EXCEPT !.pc = "read"])
               /\ UNCHANGED <<vueCache, heap>>
       /\ UNCHANGED <<disk, graphVars>>

\* lines 52, 58-91: cachedRead answered; parse and store
ParseSFCRead(r) ==
    LET rq == reqs[r]
        d == ParseText(disk[rq.path][1])
    IN /\ rq.pc = "read"
       /\ disk[rq.path] # <<>>
       /\ reqs' = [reqs EXCEPT ![r] = Finish(rq, <<d>>, 1)]
       /\ heap' = StoredHeap(heap, rq.cached, WithDescriptor(EntryOf(heap, rq.cached), d))
       /\ vueCache' = StoredCache(vueCache, heap, rq.path, rq.cached)
       /\ UNCHANGED <<disk, graphVars>>

\* lines 53-55: cachedRead failed; return undefined
ParseSFCReadFail(r) ==
    /\ reqs[r].pc = "read"
    /\ disk[reqs[r].path] = <<>>
    /\ reqs' = [reqs EXCEPT ![r] = Finish(reqs[r], <<>>, 0)]
    /\ UNCHANGED <<vueCache, heap, disk, graphVars>>

\* compileSFCMain(descriptor, filePath, publicPath), lines 99-160; a ts
\* script awaits the transform (line 108) before the code is built
CompileSFCMain(p, d) ==
    LET rq == NewReq("compileSFCMain", p, -1, <<d>>)
        hit == CachedScript(heap, rq.cached)
        code == MainCode(d, p, PublicPath(p))
    IN /\ Len(reqs) < MaxReqs
       /\ d \in Returned(p)
       /\ IF hit # <<>>
          THEN /\ reqs' = Append(reqs, Finish(rq, hit, 0))
               /\ UNCHANGED <<vueCache, heap>>
          ELSE IF d.script = "ts"
          THEN /\ reqs' = Append(reqs, [rq EXCEPT !.pc = "transform", !.invoked = 1])
               /\ UNCHANGED <<vueCache, heap>>
          ELSE /\ reqs' = Append(reqs, Finish(rq, <<code>>, 1))
               /\ heap' = StoredHeap(heap, rq.cached, WithScript(EntryOf(heap, rq.cached), code))
               /\ vueCache' = StoredCache(vueCache, heap, p, rq.cached)
       /\ UNCHANGED <<disk, graphVars>>

\* lines 108-160: the transform answered
CompileSFCMainDone(r) ==
    LET rq == reqs[r]
        code == MainCode(rq.arg[1], rq.path, PublicPath(rq.path))
    IN /\ rq.pc = "transform"
       /\ reqs' = [reqs EXCEPT ![r] = Finish(rq, <<code>>, 0)]
       /\ heap' = StoredHeap(heap, rq.cached, WithScript(EntryOf(heap, rq.cached), code))
       /\ vueCache' = StoredCache(vueCache, heap, rq.path, rq.cached)
       /\ UNCHANGED <<disk, graphVars>>

\* compileSFCTemplate(root, template, filename, publicPath, scoped),
\* lines 170-218 (no await)
CompileSFCTemplate(p, d) ==
    LET rq == NewReq("compileSFCTemplate", p, -1, <<d>>)
        hit == CachedTemplate(heap, rq.cached)
        scoped == \E i \in 1..Len(d.styles) : d.styles[i].scoped
        code == TemplateCode(d, PublicPath(p), scoped)
    IN /\ Len(reqs) < MaxReqs
       /\ d \in Returned(p)
       /\ d.template
       /\ IF hit # <<>>
          THEN /\ reqs' = Append(reqs, Finish(rq, hit, 0))
               /\ UNCHANGED <<vueCache, heap>>
          ELSE /\ reqs' = Append(reqs, Finish(rq, <<code>>, 1))
               /\ heap' = StoredHeap(heap, rq.cached, WithTemplate(EntryOf(heap, rq.cached), code))
               /\ vueCache' = StoredCache(vueCache, heap, p, rq.cached)
       /\ UNCHANGED <<disk, graphVars>>

\* compileSFCStyle(root, style, index, filename, publicPath), lines 228-237:
\* cache check, then await loadPostcssConfig
CompileSFCStyle(p, d, index) ==
    LET rq == NewReq("compileSFCStyle", p, index, <<d>>)
        hit == CachedStyle(heap, rq.cached, index)
    IN /\ Len(reqs) < MaxReqs
       /\ d \in Returned(p)
       /\ index \in 0..(Len(d.styles) - 1)
       /\ reqs' = Append(reqs, IF hit # <<>> THEN Finish(rq, hit, 0)
                               ELSE [rq EXCEPT !.pc = "postcss"])
       /\ UNCHANGED <<vueCache, heap, disk, graphVars>>

\* lines 237-253: postcss config loaded; await compileStyleAsync
CompileSFCStylePostcss(r) ==
    /\ reqs[r].pc = "postcss"
    /\ reqs' = [reqs EXCEPT ![r].pc = "compile", ![r].invoked = @ + 1]
    /\ UNCHANGED <<vueCache, heap, disk, graphVars>>

\* lines 255-297: the style processor answered; store and return
CompileSFCStyleDone(r) ==
    LET rq == reqs[r]
        result == StyleResult(StyleAt(rq.arg[1], rq.index), PublicPath(rq.path))
    IN /\ rq.pc = "compile"
       /\ reqs' = [reqs EXCEPT ![r] = Finish(rq, <<result>>, 0)]
       /\ heap' = StoredHeap(heap, rq.cached,
                     WithStyle(EntryOf(heap, rq.cached), rq.index, result))
       /\ vueCache' = StoredCache(vueCache, heap, rq.path, rq.cached)
       /\ UNCHANGED <<disk, graphVars>>

\* The developer edits the text of one style section of a file on disk
\* (texts are numbered in the order they are written)
RECURSIVE Edits(_)
Edits(styles) ==
    IF styles = <<>> THEN 0 ELSE (Head(styles).content - 1) + Edits(Tail(styles))

EditStyle(p, index) ==
    /\ disk[p] # <<>>
    /\ index \in 0..(Len(disk[p][1].styles) - 1)
    /\ Edits(disk[p][1].styles) < MaxEdits
    /\ disk' = [disk EXCEPT ![p] =
                  <<[disk[p][1] EXCEPT !.styles[index + 1].content = @ + 1]>>]
    /\ UNCHANGED <<vueCache, heap, reqs, graphVars>>

\* Files as first written: every style section holds its first text, and
\* the sections of a file are all plain or all scoped CSS modules "theme"
InitialSources ==
    {s \in Sources : \A i \in 1..Len(s.styles) :
        /\ s.styles[i].content = 1
        /\ s.styles[i].scoped = (s.styles[i].module = "theme")
        /\ s.styles[i].module # "true"
        /\ s.styles[i].module = s.styles[1].module}

IdleGraph ==
    /\ files = [f \in Files |->
                  [ext |-> "vue", module |-> FALSE, resolves |-> TRUE,
                   exists |-> TRUE, imports |-> <<>>]]
    /\ calls = <<>>
    /\ depCache = [f \in Files |-> 0]

InitSFC ==
    /\ IdleGraph
    /\ vueCache = [p \in SfcPaths |-> 0]
    /\ heap = <<>>
    /\ disk \in [SfcPaths -> {<<>>} \cup {<<s>> : s \in InitialSources}]
    /\ reqs = <<>>

NextSFC ==
    \/ \E p \in SfcPaths, given \in BOOLEAN : ParseSFC(p, given)
    \/ \E r \in ReqIds : ParseSFCRead(r)
    \/ \E r \in ReqIds : ParseSFCReadFail(r)
    \/ \E p \in SfcPaths : \E d \in Returned(p) : CompileSFCMain(p, d)
    \/ \E r \in ReqIds : CompileSFCMainDone(r)
    \/ \E p \in SfcPaths : \E d \in Returned(p) : CompileSFCTemplate(p, d)
    \/ \E p \in SfcPaths : \E d \in Returned(p), i \in 0..(MaxStyles - 1) :
          CompileSFCStyle(p, d, i)
    \/ \E r \in ReqIds : CompileSFCStylePostcss(r)
    \/ \E r \in ReqIds : CompileSFCStyleDone(r)
    \/ \E p \in SfcPaths, i \in 0..(MaxStyles - 1) : EditStyle(p, i)

SpecSFC == InitSFC /\ [][NextSFC]_vars

----------------------------------------------------------------------------
\* compileSFCMain as a function of the descriptor: every combination of
\* script, template and style sections (first texts), parsed from content the
\* caller supplies, then compiled

MainSources ==
    {s \in Sources : \A i \in 1..Len(s.styles) : s.styles[i].content = 1}

InitMain ==
    /\ IdleGraph
    /\ vueCache = [p \in SfcPaths |-> 0]
    /\ heap = <<>>
    /\ disk \in [SfcPaths -> {<<s>> : s \in MainSources}]
    /\ reqs = <<>>

NextMain ==
    \/ \E p \in SfcPaths : ParseSFC(p, TRUE)
    \/ \E p \in SfcPaths : \E d \in Returned(p) : CompileSFCMain(p, d)
    \/ \E r \in ReqIds : CompileSFCMainDone(r)

SpecMain == InitMain /\ [][NextMain]_vars

----------------------------------------------------------------------------
\* Helpers of the properties

Range(s) == {s[i] : i \in 1..Len(s)}

\* Files whose import statements one more step from S reaches; an external
\* module's source is not part of the project
ImportStep(S) ==
    S \cup {g \in Files : \E f \in S : ~files[f].module /\ g \in Range(files[f].imports)}

RECURSIVE Closure(_, _)
Closure(S, n) == IF n = 0 THEN S ELSE Closure(ImportStep(S), n - 1)

\* Every file the import statements reach from f, directly or indirectly
Reachable(f) ==
    IF files[f].module THEN {}
    ELSE Closure(Range(files[f].imports), Cardinality(Files))

Project == {Entry} \cup {f \in Reachable(Entry) : ~files[f].module}
Acyclic == \A f \in Project : f \notin Reachable(f)
AllSucceed == \A f \in Project : files[f].resolves /\ files[f].exists

RECURSIVE Ancestors(_)
Ancestors(c) ==
    IF calls[c].parent = 0 THEN {}
    ELSE {calls[c].parent} \cup Ancestors(calls[c].parent)

Targets(deps) == {deps[i].info.path : i \in 1..Len(deps)}

----------------------------------------------------------------------------
\* C1: a plain file with a registered transform gets its direct dependencies
\* from the imports of its own compiled code (item.code), and every one of
\* them is in fullDependencies.
C1_PlainDepsFromOwnCode ==
    \A c \in Ids :
        (files[calls[c].file].ext \in Registered /\ calls[c].code # Null) =>
            /\ calls[c].dependencies = ParseImports(calls[c].code)
            /\ Range(calls[c].dependencies) \subseteq Range(calls[c].fullDependencies)

\* C2: on an acyclic project where every resolution and read succeeds, the
\* node returned by the top-level call has in fullDependencies an edge to
\* every non-external file reachable from the entry.
C2_FullDepsComplete ==
    (calls[1].pc = "returned" /\ Acyclic /\ AllSucceed) =>
        \A f \in Reachable(Entry) :
            ~files[f].module => f \in Targets(calls[1].fullDependencies)

\* C3: no parse() is ever started for a dependency whose info is flagged
\* external (so no resolver.info call and no content read for it as a target);
\* the dependency is an edge of dependencies and fullDependencies only.
C3_NoRecursionIntoExternal ==
    \A c \in Ids :
        /\ calls[c].parent # 0 => ~files[calls[c].file].module
        /\ \A i \in 1..Len(calls[c].dependencies) :
              calls[c].dependencies[i].info.module =>
                  /\ calls[c].dependencies[i] \in Range(calls[c].fullDependencies)
                  /\ \A k \in Children(calls, c) :
                        calls[k].file # calls[c].dependencies[i].info.path
                        \/ ~files[calls[k].file].module

C3_Witness ==
    \E c \in Ids :
        /\ calls[c].pc = "returned"
        /\ \E i \in 1..Len(calls[c].dependencies) :
              /\ calls[c].dependencies[i].info.module
              /\ calls[c].dependencies[i] \in Range(calls[c].fullDependencies)
        /\ \E j \in 1..Len(calls[c].dependencies) :
              ~calls[c].dependencies[j].info.module

\* C4: for an existing, resolvable file that is not a .vue file and whose
\* extension has no registered transform (whatever the extension is),
\* parse() never fails and returns a node with code = null, no dependencies,
\* no fullDependencies, having warned exactly once.
PlainUnregistered(f) ==
    /\ files[f].ext # "vue"
    /\ files[f].ext \notin Registered
    /\ files[f].resolves
    /\ files[f].exists

C4_NoTransformerDegrades ==
    \A c \in Ids :
        PlainUnregistered(calls[c].file) =>
            /\ calls[c].pc # "failed"
            /\ calls[c].pc \in {"resolve", "read"} => calls[c].warnings = 0
            /\ calls[c].pc \in {"join", "returned"} =>
                  /\ calls[c].code = Null
                  /\ calls[c].dependencies = <<>>
                  /\ calls[c].fullDependencies = <<>>
                  /\ calls[c].warnings = 1

\* C5 as stated: when the content source fails with NotFound for the entry,
\* the top-level call does not fail; it returns a node with empty rawContent
\* and no dependencies.
C5_EntryNotFoundReturns ==
    (files[Entry].resolves /\ ~files[Entry].exists) =>
        /\ calls[1].pc # "failed"
        /\ calls[1].pc \in {"join", "returned"} =>
              calls[1].rawContent = Empty /\ calls[1].dependencies = <<>>

\* C5 amended: when the content source fails with NotFound for the entry,
\* the top-level call fails with NotFound and never returns; the node it
\* registered in the graph cache keeps empty rawContent and no dependencies.
C5_EntryNotFoundFails ==
    (files[Entry].resolves /\ ~files[Entry].exists) =>
        /\ calls[1].pc \in {"resolve", "read", "failed"}
        /\ calls[1].pc = "failed" =>
              /\ calls[1].err = "NotFound"
              /\ depCache[Entry] # 0
              /\ calls[depCache[Entry]].rawContent = Empty
              /\ calls[depCache[Entry]].dependencies = <<>>
              /\ calls[depCache[Entry]].fullDependencies = <<>>

C5_Witness ==
    /\ files[Entry].resolves
    /\ ~files[Entry].exists
    /\ calls[1].pc = "failed"
    /\ calls[1].err = "NotFound"
    /\ depCache[Entry] = 1

\* C6: a NotFound of a non-entry dependency is not fatal: the top-level call
\* never fails because of it, and a call whose own read failed ends as a
\* node with empty content and no dependencies.
C6_DependencyNotFoundNonFatal ==
    /\ (calls[1].pc = "failed" /\ calls[1].err = "NotFound") => ~files[Entry].exists
    /\ \A c \in Ids :
          (calls[c].parent # 0 /\ ~files[calls[c].file].exists
              /\ files[calls[c].file].resolves) => calls[c].pc # "failed"

\* C7: a ResolutionError of the entry or of any dependency reached by the
\* recursion is never absorbed: no enclosing call returns a node, and once
\* nothing more can run the top-level call has failed.
C7_ResolutionErrorPropagates ==
    \A c \in Ids :
        (calls[c].pc = "failed" /\ calls[c].err = "ResolutionError") =>
            /\ \A a \in Ancestors(c) : calls[a].pc # "returned"
            /\ ~(ENABLED Next) => calls[1].pc = "failed"

C7_Witness ==
    \E c \in Ids :
        /\ calls[c].parent # 0
        /\ calls[calls[c].parent].parent # 0
        /\ ~files[calls[c].file].resolves
        /\ calls[c].pc = "failed"
        /\ \A a \in Ancestors(c) :
              calls[a].pc = "failed" /\ calls[a].err = "ResolutionError"

\* C8: when two sibling dependencies both import the same third file, the
\* third file's load/transform is invoked at most once in the run.
C8_SharedDependencyCompiledOnce ==
    \A s1, s2 \in Ids :
        (s1 # s2 /\ calls[s1].parent = calls[s2].parent /\ calls[s1].parent # 0
            /\ calls[s1].file # calls[s2].file) =>
            \A g1 \in Children(calls, s1), g2 \in Children(calls, s2) :
                calls[g1].file = calls[g2].file =>
                    ~(calls[g1].compiled /\ calls[g2].compiled)

\* C9: a request made while the block's output is already stored in the
\* path's cache entry never invokes the underlying parse / compile function
\* and returns the stored value.
C9_CachedBlockNotRecompiled ==
    \A r \in ReqIds :
        reqs[r].seen # <<>> =>
            /\ reqs[r].pc = "done"
            /\ reqs[r].invoked = 0
            /\ reqs[r].result = reqs[r].seen

C9_Witness ==
    \E r1, r2 \in ReqIds :
        /\ r1 < r2
        /\ reqs[r1].fn = "compileSFCStyle" /\ reqs[r2].fn = "compileSFCStyle"
        /\ reqs[r1].index = reqs[r2].index
        /\ reqs[r1].pc = "done" /\ reqs[r1].invoked = 1
        /\ reqs[r2].pc = "done" /\ reqs[r2].invoked = 0
        /\ reqs[r2].seen # <<>>
        /\ reqs[r2].result = reqs[r1].result
        /\ reqs[r2].block = reqs[r1].block

\* A request that compiled its block on a file nobody edited meanwhile
CompiledOnce(r0) ==
    /\ reqs[r0].pc = "done"
    /\ reqs[r0].invoked = 1
    /\ reqs[r0].fn = "compileSFCStyle" => reqs[r0].blockDone = reqs[r0].block

\* C10: recompiling a file that was compiled before returns the cached
\* behavior and template outputs unchanged, and a style output computed from
\* the style section as it is in the file when the recompile is requested
\* (so a new one after that section was edited).
C10_EditedStyleRecompiled ==
    \A r \in ReqIds :
        (/\ reqs[r].pc = "done" /\ reqs[r].seen # <<>>
         /\ \E r0 \in 1..(r - 1) :
               /\ CompiledOnce(r0)
               /\ reqs[r0].fn = reqs[r].fn /\ reqs[r0].index = reqs[r].index
               /\ reqs[r].seen = reqs[r0].result) =>
            /\ reqs[r].fn \in {"compileSFCMain", "compileSFCTemplate"} =>
                  reqs[r].result = reqs[r].seen
            /\ reqs[r].fn = "compileSFCStyle" =>
                  /\ reqs[r].block # <<>>
                  /\ reqs[r].result =
                        <<StyleResult(reqs[r].block[1], PublicPath(reqs[r].path))>>

\* Positions in a generated module of the statements of one kind
StmtsOf(code, kind) == {k \in 1..Len(code) : code[k].kind = kind}

ScopeIdStmt == "__script.__scopeId"
CssModulesStmt == "const __cssModules = __script.__cssModules = {}"
CssModuleAssign == "__cssModules[] = __style"

\* The style sections of a file that declare CSS-module semantics, counted
\* from 0
ModuleStyles(src) == {i \in 0..(Len(src.styles) - 1) : src.styles[i + 1].module # "absent"}

\* C11: in the module compileSFCMain generates for a file, __scopeId is set
\* (to data-v-<hash of publicPath>, once) exactly when some style section is
\* scoped; __cssModules is created (once, before any assignment) exactly when
\* some style section declares CSS-module semantics; and the assignments into
\* __cssModules are one per such section, under its declared name, or under
\* "$style" when it declares none.
C11_ScopeIdAndCssModules ==
    \A r \in ReqIds :
        (reqs[r].fn = "compileSFCMain" /\ reqs[r].pc = "done") =>
            LET src == disk[reqs[r].path][1]
                code == reqs[r].result[1]
                scoped == \E i \in 1..Len(src.styles) : src.styles[i].scoped
                scopeIds == StmtsOf(code, ScopeIdStmt)
                creates == StmtsOf(code, CssModulesStmt)
                assigns == StmtsOf(code, CssModuleAssign)
            IN /\ scoped <=> scopeIds # {}
               /\ Cardinality(scopeIds) <= 1
               /\ \A k \in scopeIds :
                     code[k].arg = "data-v-" \o HashSum(PublicPath(reqs[r].path))
               /\ ModuleStyles(src) # {} <=> creates # {}
               /\ Cardinality(creates) <= 1
               /\ \A k \in creates : \A a \in assigns : k < a
               /\ {code[a].index : a \in assigns} = ModuleStyles(src)
               /\ Cardinality(assigns) = Cardinality(ModuleStyles(src))
               /\ \A a \in assigns :
                     LET m == src.styles[code[a].index + 1].module
                     IN code[a].arg = IF m = "true" THEN "$style" ELSE m

\* A file with a scoped unnamed CSS-module section followed by a plain
\* section named "theme" was compiled: __scopeId, one __cssModules and both
\* assignments are in its module
C11_Witness ==
    \E r \in ReqIds :
        /\ reqs[r].fn = "compileSFCMain" /\ reqs[r].pc = "done"
        /\ LET src == disk[reqs[r].path][1]
               code == reqs[r].result[1]
           IN /\ Len(src.styles) = 2
              /\ src.styles[1].scoped /\ src.styles[1].module = "true"
              /\ ~src.styles[2].scoped /\ src.styles[2].module = "theme"
              /\ StmtsOf(code, ScopeIdStmt) # {}
              /\ StmtsOf(code, CssModulesStmt) # {}
              /\ \E a, b \in StmtsOf(code, CssModuleAssign) :
                    /\ code[a].arg = "$style" /\ code[a].index = 0
                    /\ code[b].arg = "theme" /\ code[b].index = 1

\* C12: a call settles (returns or fails) only after every recursive call it
\* started has settled; one failed dependency does not settle the parent
\* while a sibling recursion is still in flight.
C12_SettlesAfterAllChildren ==
    \A p \in Ids :
        Settled(p) => \A k \in Children(calls, p) : Settled(k)

\* The recursive calls a call started, in the order it started them (the
\* declaration order of its non-external dependencies)
ChildSeq(p) ==
    LET kids == Children(calls, p)
        Rank(k) == Cardinality({j \in kids : j <= k})
    IN [i \in 1..Cardinality(kids) |-> CHOOSE k \in kids : Rank(k) = i]

\* Concatenation of the fullDependencies of the calls ks[i..]
RECURSIVE ConcatFull(_, _)
ConcatFull(ks, i) ==
    IF i > Len(ks) THEN <<>>
    ELSE calls[ks[i]].fullDependencies \o ConcatFull(ks, i + 1)

\* C13: whatever the order in which sibling recursions complete, a returned
\* node's fullDependencies is its direct edges followed by the
\* fullDependencies of its non-external direct dependencies, concatenated in
\* declaration order.
C13_FullDepsInDeclarationOrder ==
    \A p \in Ids :
        calls[p].pc = "returned" =>
            calls[p].fullDependencies =
                calls[p].dependencies \o ConcatFull(ChildSeq(p), 1)

\* C14: a call registers its node in the graph cache under the resolved path
\* only after resolver.info succeeded and before its content read starts:
\* while a read, SFC parse or transform of a path is in flight the cache
\* holds a node of that path, and a path is in the cache only if a call
\* resolved it.
C14_RegisteredBeforeRead ==
    /\ \A c \in Ids :
          /\ calls[c].pc \in {"read", "sfc", "transform"} =>
                /\ calls[c].hasItem
                /\ depCache[calls[c].file] # 0
                /\ calls[depCache[calls[c].file]].file = calls[c].file
                /\ calls[depCache[calls[c].file]].hasItem
          /\ calls[c].pc = "resolve" => ~calls[c].hasItem
          /\ ~files[calls[c].file].resolves => ~calls[c].hasItem
    /\ \A f \in Files :
          depCache[f] # 0 =>
              /\ files[f].resolves
              /\ calls[depCache[f]].pc # "resolve"

\* A dependency's content read is in flight, nothing of the file is loaded
\* yet, and the cache already holds this call's node
C14_Witness ==
    \E c \in Ids :
        /\ calls[c].parent # 0
        /\ calls[c].pc = "read"
        /\ calls[c].rawContent = Empty
        /\ depCache[calls[c].file] = c

\* The import statements of the entry's non-external files form a cycle
HasCycle == \E f \in Project : f \in Reachable(f)

\* C15: on a project whose import statements form a cycle among the entry's
\* non-external files, and where every resolution, read and compile succeeds,
\* the top-level call never settles and the recursion only stops where the
\* bound on invocations cuts it off (a compile is waiting to start further
\* recursive calls).
C15_CycleNeverCompletes ==
    (HasCycle /\ AllSucceed) =>
        /\ ~Settled(1)
        /\ ~(ENABLED Next) =>
              /\ Len(calls) = MaxCalls
              /\ \E c \in Ids : calls[c].pc \in {"sfc", "transform"}

\* The node the graph cache holds for path f has completed construction
CompletedIn(dc, cs, f) == dc[f] # 0 /\ cs[dc[f]].pc = "returned"

\* C16: once the graph cache maps a path to a node whose construction has
\* completed, every later state maps the path to a completed node: no step
\* replaces it by a fresh placeholder.
C16_CompletedNodeKept ==
    [][\A f \in Files :
          CompletedIn(depCache, calls, f) => CompletedIn(depCache', calls', f)]_vars

\* The sub-fields the entry of path p holds in cache vc and heap h
\* ("descriptor", "script", "template", or a style index)
StoredIn(vc, h, p) ==
    IF vc[p] = 0 THEN {}
    ELSE LET e == h[vc[p]]
         IN {fld \in {"descriptor", "script", "template"} : e[fld] # <<>>}
              \cup {i \in DOMAIN e.styles : e.styles[i] # <<>>}

\* C17: no step of parseSFC, compileSFCMain, compileSFCTemplate or
\* compileSFCStyle loses an update: a sub-field stored in a path's cache
\* entry is still stored in the path's entry after the step.
C17_NoLostUpdate ==
    [][\A p \in SfcPaths :
          StoredIn(vueCache, heap, p) \subseteq StoredIn(vueCache', heap', p)]_vars

\* C18: after a call has settled (returned its node or failed), no step
\* changes its node's fullDependencies or extra.styles.
C18_FrozenAfterSettle ==
    [][\A c \in Ids :
          Settled(c) =>
              /\ calls'[c].fullDependencies = calls[c].fullDependencies
              /\ calls'[c].styles = calls[c].styles]_vars

\* C19: in every state every node's extra.styles is empty and its
\* dependenciesPromise is null.
C19_StylesEmptyPromiseNull ==
    \A c \in Ids :
        /\ calls[c].styles = <<>>
        /\ calls[c].dependenciesPromise = Null

\* A composite entry returned after folding two composite children that
\* had been parsed and had returned
C19_Witness ==
    /\ calls[1].pc = "returned"
    /\ files[Entry].ext = "vue"
    /\ calls[1].styles = <<>>
    /\ calls[1].dependenciesPromise = Null
    /\ \E k1, k2 \in Children(calls, 1) :
          /\ k1 # k2
          /\ files[calls[k1].file].ext = "vue" /\ files[calls[k2].file].ext = "vue"
          /\ calls[k1].compiled /\ calls[k2].compiled
          /\ calls[k1].folded /\ calls[k2].folded

====
